---- MODULE Spec2Model ----
(***************************************************************************)
(* Model of core/translation_engine.py: the TranslationEngine (dictionary  *)
(* store, search index builder, matcher, rewriter) and the NLTKManager it  *)
(* consults for lemmas.                                                     *)
(*                                                                         *)
(* Strings are sequences of one-character tokens.  The token RunTok stands *)
(* for a run of RunLen consecutive letters 'w' (run-length encoding), so   *)
(* that terms whose escaped length approaches MAX_PATTERN_LEN can be       *)
(* written down; no other token is the letter 'w', hence a run is matched  *)
(* whole or not at all.                                                     *)
(***************************************************************************)
EXTENDS Integers, Sequences, FiniteSets, TLC

\* ------------------------------------------------------------------------
\* Bounds of the model
\* ------------------------------------------------------------------------
RunLen == 9999

\* ------------------------------------------------------------------------
\* Program constants
\* ------------------------------------------------------------------------
MAX_PATTERN_LEN == 20000

\* ------------------------------------------------------------------------
\* Characters and strings
\* ------------------------------------------------------------------------
RunTok == "w*"

UpperCase == {"A", "B", "C", "E", "F", "I", "L", "O", "R", "S"}

LowerLetters == {"a", "b", "c", "e", "f", "g", "h", "i", "l", "n", "o",
                 "p", "r", "s", "t", "u"}

\* characters that re.escape prefixes with a backslash
SpecialChars == {" ", "+", "-", "(", ")", "/", "{", "}"}

\* str.lower() on one character
LowerChar(c) ==
  CASE c = "A" -> "a" [] c = "B" -> "b" [] c = "C" -> "c" [] c = "E" -> "e"
    [] c = "F" -> "f" [] c = "I" -> "i" [] c = "L" -> "l" [] c = "O" -> "o"
    [] c = "R" -> "r" [] c = "S" -> "s" [] OTHER -> c

\* str.lower()
Lower(s) == [i \in 1..Len(s) |-> LowerChar(s[i])]

\* \w of the regular-expression engine
Digits == {"0", "1", "2", "3", "4", "5", "6", "7", "8", "9"}

IsWordChar(c) == c \in UpperCase \cup LowerLetters \cup Digits \cup {RunTok, "_"}

\* characters removed by str.strip()
IsSpace(c) == c \in {" ", "\t"}

\* number of source characters a token stands for
CharLen(c) == IF c = RunTok THEN RunLen ELSE 1

RECURSIVE StrLen(_)
\* len(s)
StrLen(s) == IF s = <<>> THEN 0 ELSE CharLen(Head(s)) + StrLen(Tail(s))

RECURSIVE LStrip(_)
LStrip(s) == IF s # <<>> /\ IsSpace(Head(s)) THEN LStrip(Tail(s)) ELSE s

RECURSIVE RStrip(_)
RStrip(s) ==
  IF s # <<>> /\ IsSpace(s[Len(s)]) THEN RStrip(SubSeq(s, 1, Len(s) - 1)) ELSE s

\* str.strip()
Strip(s) == RStrip(LStrip(s))

\* Python slice s[a:b] with 0 <= a, b (0-based, end exclusive, offsets past
\* the end clamped to the length)
Slice(s, a, b) ==
  LET hi == IF b > Len(s) THEN Len(s) ELSE b
  IN  IF a >= hi THEN <<>> ELSE SubSeq(s, a + 1, hi)

RECURSIVE Concat(_)
\* ''.join(list of strings)
Concat(ss) == IF ss = <<>> THEN <<>> ELSE Head(ss) \o Concat(Tail(ss))

Range(f) == {f[i] : i \in DOMAIN f}

\* ------------------------------------------------------------------------
\* Ordered dictionaries (Python dict): sequences of <<key, value>> pairs
\* with unique keys, in insertion order
\* ------------------------------------------------------------------------
\* None and the empty string are both falsy in Python; every place the engine
\* tests a looked-up key tests its truthiness only
None == <<>>

DictKeys(d) == [i \in 1..Len(d) |-> d[i][1]]

DictKeySet(d) == {d[i][1] : i \in 1..Len(d)}

DictHas(d, k) == k \in DictKeySet(d)

\* d.get(k)
DictGet(d, k) ==
  IF DictHas(d, k) THEN d[CHOOSE i \in 1..Len(d) : d[i][1] = k][2] ELSE None

\* mutant: an existing key keeps its value (setdefault)
DictSet_KeepFirst(d, k, v) == IF DictHas(d, k) THEN d ELSE Append(d, <<k, v>>)

\* d[k] = v : overwrite in place, or append
DictSet(d, k, v) ==
  IF DictHas(d, k)
    THEN [i \in 1..Len(d) |-> IF d[i][1] = k THEN <<k, v>> ELSE d[i]]
    ELSE Append(d, <<k, v>>)

RECURSIVE DictFromPairs(_)
\* {k: v for (k, v) in pairs}
DictFromPairs(pairs) ==
  IF pairs = <<>> THEN <<>>
  ELSE LET last == pairs[Len(pairs)]
       IN  DictSet(DictFromPairs(SubSeq(pairs, 1, Len(pairs) - 1)),
                   last[1], last[2])

\* ------------------------------------------------------------------------
\* NLTKManager
\* ------------------------------------------------------------------------
\* WordNetLemmatizer.lemmatize(word, pos) on the vocabulary of the model
Lemmatize(word, pos) ==
  CASE pos = "v" /\ word = <<"r","u","n","n","i","n","g">> -> <<"r","u","n">>
    [] pos = "v" /\ word = <<"r","a","n">> -> <<"r","u","n">>
    [] pos = "n" /\ word = <<"o","r","c","s">> -> <<"o","r","c">>
    [] pos = "n" /\ word = <<"s","p","e","l","l","s">> -> <<"s","p","e","l","l">>
    [] OTHER -> word

\* NLTKManager.lemmatize_word, given a lemmatizer
lemmatize_word(word) == Lemmatize(Lemmatize(word, "v"), "n")

\* NLTKManager.initialize: the value of _initialized after the call, when the
\* WordNet data is (avail) or is not obtainable
initialize(initialized, avail) == initialized \/ avail

\* ------------------------------------------------------------------------
\* Dictionary store: load_translation_table
\* ------------------------------------------------------------------------
NaN == [na |-> TRUE, s |-> <<>>]

Cell(s) == [na |-> FALSE, s |-> s]

\* df[[source_col, target_col]].dropna()
dropna(rows) == SelectSeq(rows, LAMBDA r : ~r[1].na /\ ~r[2].na)

\* the (key, value) pairs the dict comprehension of load_translation_table
\* yields, in row order
CleanPairs(rows) ==
  LET kept == SelectSeq(dropna(rows),
                LAMBDA r : Strip(r[1].s) # <<>> /\ Strip(r[2].s) # <<>>)
  IN  [i \in 1..Len(kept) |-> <<Strip(kept[i][1].s), Strip(kept[i][2].s)>>]

\* the dictionary load_translation_table assigns to translation_dict
LoadedDict(rows) == DictFromPairs(CleanPairs(rows))

\* outcome of the checks that precede the assignment
LoadError(file) ==
  IF ~file.exists THEN "FileNotFoundError"
  ELSE IF ~file.readable THEN "ValueError"
  ELSE IF file.ncols < 2 THEN "ValueError"
  ELSE "none"

\* ------------------------------------------------------------------------
\* Search index builder
\* ------------------------------------------------------------------------
RECURSIVE InsertByLenDesc(_, _)
\* insert x after every element at least as long (stable, descending)
InsertByLenDesc(sorted, x) ==
  IF sorted = <<>> THEN <<x>>
  ELSE IF StrLen(Head(sorted)) >= StrLen(x)
         THEN <<Head(sorted)>> \o InsertByLenDesc(Tail(sorted), x)
         ELSE <<x>> \o sorted

RECURSIVE SortedByLenDesc(_)
\* sorted(seq, key=len, reverse=True)
SortedByLenDesc(seq) ==
  IF seq = <<>> THEN <<>>
  ELSE InsertByLenDesc(SortedByLenDesc(SubSeq(seq, 1, Len(seq) - 1)),
                       seq[Len(seq)])

\* mutant: the surface map storing the lowercased key as its value
BuildLowerToOriginal_LowerValues(sorted_keys) ==
  DictFromPairs([i \in 1..Len(sorted_keys) |->
                   <<Lower(sorted_keys[i]), Lower(sorted_keys[i])>>])

\* {k.lower(): k for k in sorted_keys}
BuildLowerToOriginal(sorted_keys) ==
  DictFromPairs([i \in 1..Len(sorted_keys) |->
                   <<Lower(sorted_keys[i]), sorted_keys[i]>>])

\* ' ' not in key_lower
IsSingleWord(key_lower) == \A i \in 1..Len(key_lower) : key_lower[i] # " "

RECURSIVE BuildLemmaMap_MultiWordOnly(_, _)
\* mutant: the single-word test inverted (' ' in key_lower)
BuildLemmaMap_MultiWordOnly(sorted_keys, l2o) ==
  IF sorted_keys = <<>> THEN <<>>
  ELSE LET key == sorted_keys[Len(sorted_keys)]
           key_lower == Lower(key)
           lemma == lemmatize_word(key_lower)
           sofar == BuildLemmaMap_MultiWordOnly(
                      SubSeq(sorted_keys, 1, Len(sorted_keys) - 1), l2o)
       IN  IF ~IsSingleWord(key_lower) /\ lemma # key_lower /\ ~DictHas(l2o, lemma)
             THEN DictSet(sofar, lemma, key)
             ELSE sofar

RECURSIVE BuildLemmaMap_NoSurfaceTest(_, _)
\* mutant: the test 'lemma not in self._lower_to_original' dropped
BuildLemmaMap_NoSurfaceTest(sorted_keys, l2o) ==
  IF sorted_keys = <<>> THEN <<>>
  ELSE LET key == sorted_keys[Len(sorted_keys)]
           key_lower == Lower(key)
           lemma == lemmatize_word(key_lower)
           sofar == BuildLemmaMap_NoSurfaceTest(
                      SubSeq(sorted_keys, 1, Len(sorted_keys) - 1), l2o)
       IN  IF IsSingleWord(key_lower) /\ lemma # key_lower
             THEN DictSet(sofar, lemma, key)
             ELSE sofar

RECURSIVE BuildLemmaMap(_, _)
\* the loop that fills _lemma_map
BuildLemmaMap(sorted_keys, l2o) ==
  IF sorted_keys = <<>> THEN <<>>
  ELSE LET key == sorted_keys[Len(sorted_keys)]
           key_lower == Lower(key)
           lemma == lemmatize_word(key_lower)
           sofar == BuildLemmaMap(SubSeq(sorted_keys, 1, Len(sorted_keys) - 1), l2o)
       IN  IF IsSingleWord(key_lower) /\ lemma # key_lower /\ ~DictHas(l2o, lemma)
             THEN DictSet(sofar, lemma, key)
             ELSE sofar

\* re.escape on one character
EscapeChar(c) == IF c \in SpecialChars THEN <<"\\", c>> ELSE <<c>>

RECURSIVE Escape(_)
\* re.escape
Escape(s) == IF s = <<>> THEN <<>> ELSE EscapeChar(Head(s)) \o Escape(Tail(s))

\* '|'.join(buf), as the list of alternatives the joined text denotes: the
\* empty text is one alternative that matches the empty string
JoinAlternatives(buf) == IF buf = <<>> THEN << <<>> >> ELSE buf

RECURSIVE JoinLoop_NoFlush(_, _, _, _)
\* mutant: the loop without the flush of a full buffer
JoinLoop_NoFlush(escaped_list, chunks, buf, cur_len) ==
  IF escaped_list = <<>> THEN [chunks |-> chunks, buf |-> buf]
  ELSE LET term == Head(escaped_list)
       IN  JoinLoop_NoFlush(Tail(escaped_list), chunks, Append(buf, term),
                            cur_len + StrLen(term) + 1)

RECURSIVE JoinLoop(_, _, _, _)
\* the loop of _join_terms_for_regex: the final (chunks, buf)
JoinLoop(escaped_list, chunks, buf, cur_len) ==
  IF escaped_list = <<>> THEN [chunks |-> chunks, buf |-> buf]
  ELSE LET term == Head(escaped_list)
           flush == cur_len + StrLen(term) + 1 > MAX_PATTERN_LEN
           chunks1 == IF flush THEN Append(chunks, JoinAlternatives(buf)) ELSE chunks
           buf1 == IF flush THEN <<>> ELSE buf
           len1 == IF flush THEN 0 ELSE cur_len
       IN  JoinLoop(Tail(escaped_list), chunks1, Append(buf1, term),
                    len1 + StrLen(term) + 1)

\* _join_terms_for_regex: the chunks of the joined alternation
join_terms_for_regex(escaped_list) ==
  IF escaped_list = <<>> THEN <<>>
  ELSE LET r == JoinLoop(escaped_list, <<>>, <<>>, 0)
       IN  IF r.buf # <<>> THEN Append(r.chunks, JoinAlternatives(r.buf))
           ELSE r.chunks

\* set(_lower_to_original.keys()) | set(_lemma_map.keys())
AllFormsLower(l2o, lm) == DictKeySet(l2o) \cup DictKeySet(lm)

RECURSIVE SortedFormOrders_Ascending(_)
\* mutant: the forms sorted without reverse=True (shortest first)
SortedFormOrders_Ascending(forms) ==
  IF forms = {} THEN {<<>>}
  ELSE LET shortest == {x \in forms : \A y \in forms : StrLen(x) <= StrLen(y)}
       IN  UNION {{<<x>> \o o : o \in SortedFormOrders_Ascending(forms \ {x})} :
                    x \in shortest}

RECURSIVE SortedFormOrders(_)
\* the orders sorted(all_forms_lower, key=len, reverse=True) can produce:
\* a set iterates in an arbitrary order, the sort is stable, so forms of
\* equal length come out in any order
SortedFormOrders(forms) ==
  IF forms = {} THEN {<<>>}
  ELSE LET longest == {x \in forms : \A y \in forms : StrLen(x) >= StrLen(y)}
       IN  UNION {{<<x>> \o o : o \in SortedFormOrders(forms \ {x})} :
                    x \in longest}

\* ------------------------------------------------------------------------
\* The regular-expression engine (re), on patterns \b(alt|alt|...)\b
\* compiled with re.IGNORECASE.  Offsets count tokens, from 0.
\* ------------------------------------------------------------------------
RECURSIVE Unescape(_)
\* the literal characters an escaped term stands for
Unescape(e) ==
  IF e = <<>> THEN <<>>
  ELSE IF Head(e) = "\\" THEN <<e[2]>> \o Unescape(SubSeq(e, 3, Len(e)))
  ELSE <<Head(e)>> \o Unescape(Tail(e))

\* the alternatives of the group, in the order the engine tries them, each
\* as the literal it matches
Alternatives(chunks) ==
  LET alts == Concat(chunks) IN [i \in 1..Len(alts) |-> Unescape(alts[i])]

\* \b at offset p of text
Boundary(text, p) ==
  LET before == p >= 1 /\ IsWordChar(text[p])
      after == p < Len(text) /\ IsWordChar(text[p + 1])
  IN  before # after

\* the literal lit matches text at offset p, ignoring case
LiteralAt(text, p, lit) ==
  /\ p + Len(lit) <= Len(text)
  /\ \A i \in 1..Len(lit) : LowerChar(text[p + i]) = LowerChar(lit[i])

\* mutant: the pattern without its trailing \b
AltMatches_NoTrailingBoundary(text, p, lit, must_advance) ==
  /\ LiteralAt(text, p, lit)
  /\ (must_advance => Len(lit) > 0)

\* the alternative with literal lit lets the whole pattern match at offset p
\* (the leading \b is checked by MatchAt)
AltMatches(text, p, lit, must_advance) ==
  /\ LiteralAt(text, p, lit)
  /\ Boundary(text, p + Len(lit))
  /\ (must_advance => Len(lit) > 0)

RECURSIVE FirstAlt(_, _, _, _, _)
\* the alternatives are tried in order from the i-th: end offset of the
\* first that matches, or -1
FirstAlt(text, p, lits, i, must_advance) ==
  IF i > Len(lits) THEN -1
  ELSE IF AltMatches(text, p, lits[i], must_advance) THEN p + Len(lits[i])
  ELSE FirstAlt(text, p, lits, i + 1, must_advance)

\* end offset of the match the engine finds at offset p, or -1
MatchAt(text, p, lits, must_advance) ==
  IF Boundary(text, p) THEN FirstAlt(text, p, lits, 1, must_advance) ELSE -1

RECURSIVE Search(_, _, _, _, _)
\* the leftmost match at or after offset s of a search resumed at pos:
\* <<start, end>>, or <<>>
Search(text, lits, s, pos, must_advance) ==
  IF s > Len(text) THEN <<>>
  ELSE LET e == MatchAt(text, s, lits, must_advance /\ s = pos)
       IN  IF e # -1 THEN <<s, e>>
           ELSE Search(text, lits, s + 1, pos, must_advance)

RECURSIVE finditer_Overlapping(_, _, _, _)
\* mutant: the scan resumed one character after the start of the last match
\* instead of at its end
finditer_Overlapping(text, lits, pos, must_advance) ==
  LET m == Search(text, lits, pos, pos, must_advance)
  IN  IF m = <<>> THEN <<>>
      ELSE <<m>> \o finditer_Overlapping(text, lits, m[1] + 1, FALSE)

RECURSIVE finditer(_, _, _, _)
\* Pattern.finditer(text) resumed at offset pos: the list of <<start, end>>.
\* After an empty match the engine must advance: an empty match at the
\* offset it resumes from is rejected.
finditer(text, lits, pos, must_advance) ==
  LET m == Search(text, lits, pos, pos, must_advance)
  IN  IF m = <<>> THEN <<>>
      ELSE <<m>> \o finditer(text, lits, m[2], m[2] = m[1])

\* _regex = None
NoRegex == [compiled |-> FALSE, chunks |-> <<>>, alts |-> <<>>]

\* re.compile(rf'\b({joined})\b', re.IGNORECASE): the compiled pattern
\* keeps the chunks of the pattern text and the alternatives parsed from it
CompileRegex(order) ==
  LET chunks == join_terms_for_regex([i \in 1..Len(order) |-> Escape(order[i])])
  IN  [compiled |-> TRUE, chunks |-> chunks, alts |-> Alternatives(chunks)]

\* ------------------------------------------------------------------------
\* str.format with the keyword arguments translation and original.
\* A template is a sequence of tokens: "{" name "}" is a replacement field
\* whose name is one token, "{" "{" and "}" "}" are escaped braces.
\* ------------------------------------------------------------------------
FormatError(e) == [ok |-> FALSE, s |-> <<>>, err |-> e]

RECURSIVE Format(_, _, _)
Format(template, translation, original) ==
  IF template = <<>> THEN [ok |-> TRUE, s |-> <<>>, err |-> "none"]
  ELSE LET t == Head(template)
           n == Len(template)
           rest(k) == Format(SubSeq(template, k, n), translation, original)
           cons(x, r) == IF r.ok THEN [ok |-> TRUE, s |-> x \o r.s, err |-> "none"]
                         ELSE r
       IN  IF t = "{" /\ n >= 2 /\ template[2] = "{" THEN cons(<<"{">>, rest(3))
           ELSE IF t = "}" /\ n >= 2 /\ template[2] = "}" THEN cons(<<"}">>, rest(3))
           ELSE IF t = "{" /\ n >= 3 /\ template[3] = "}" THEN
                  IF template[2] = "translation" THEN cons(translation, rest(4))
                  ELSE IF template[2] = "original" THEN cons(original, rest(4))
                  ELSE FormatError("KeyError")
           ELSE IF t \in {"{", "}"} THEN FormatError("ValueError")
           ELSE cons(<<t>>, rest(2))

\* ------------------------------------------------------------------------
\* Matcher and rewriter, over a built index
\* ------------------------------------------------------------------------
\* self._lower_to_original.get(m) or self._lemma_map.get(m)
Resolve(l2o, lm, matched_lower) ==
  IF DictGet(l2o, matched_lower) # None THEN DictGet(l2o, matched_lower)
  ELSE DictGet(lm, matched_lower)

RECURSIVE FoundTerms_NoMembershipTest(_, _, _, _, _)
\* mutant: the test 'original_key not in found_terms' dropped from a
\* list-building loop
FoundTerms_NoMembershipTest(text, matches, l2o, lm, dict) ==
  IF matches = <<>> THEN <<>>
  ELSE LET m == matches[Len(matches)]
           sofar == FoundTerms_NoMembershipTest(
                      text, SubSeq(matches, 1, Len(matches) - 1), l2o, lm, dict)
           matched_text == Lower(Slice(text, m[1], m[2]))
           original_key == Resolve(l2o, lm, matched_text)
       IN  IF original_key # None
             THEN Append(sofar, <<original_key, DictGet(dict, original_key)>>)
             ELSE sofar

RECURSIVE FoundTerms_MatchedTextKey(_, _, _, _, _)
\* mutant: the entry recorded under the lowercased matched text
FoundTerms_MatchedTextKey(text, matches, l2o, lm, dict) ==
  IF matches = <<>> THEN <<>>
  ELSE LET m == matches[Len(matches)]
           sofar == FoundTerms_MatchedTextKey(
                      text, SubSeq(matches, 1, Len(matches) - 1), l2o, lm, dict)
           matched_text == Lower(Slice(text, m[1], m[2]))
           original_key == Resolve(l2o, lm, matched_text)
       IN  IF original_key # None /\ ~DictHas(sofar, matched_text)
             THEN Append(sofar, <<matched_text, DictGet(dict, original_key)>>)
             ELSE sofar

RECURSIVE FoundTerms(_, _, _, _, _)
\* the loop of find_terms_in_text over the matches
FoundTerms(text, matches, l2o, lm, dict) ==
  IF matches = <<>> THEN <<>>
  ELSE LET m == matches[Len(matches)]
           sofar == FoundTerms(text, SubSeq(matches, 1, Len(matches) - 1),
                               l2o, lm, dict)
           matched_text == Lower(Slice(text, m[1], m[2]))
           original_key == Resolve(l2o, lm, matched_text)
       IN  IF original_key # None /\ ~DictHas(sofar, original_key)
             THEN Append(sofar, <<original_key, DictGet(dict, original_key)>>)
             ELSE sofar

\* a match resolves to a key that translation_dict does not hold (KeyError)
FindKeyError(text, matches, l2o, lm, dict) ==
  \E i \in 1..Len(matches) :
     LET k == Resolve(l2o, lm, Lower(Slice(text, matches[i][1], matches[i][2])))
     IN  k # None /\ ~DictHas(dict, k)

RECURSIVE Replacements_LowerOriginal(_, _, _, _, _, _)
\* mutant: {original} bound to the lowercased matched text
Replacements_LowerOriginal(text, matches, l2o, lm, dict, format_template) ==
  IF matches = <<>> THEN [ok |-> TRUE, list |-> <<>>, err |-> "none"]
  ELSE LET m == matches[Len(matches)]
           sofar == Replacements_LowerOriginal(
                      text, SubSeq(matches, 1, Len(matches) - 1),
                      l2o, lm, dict, format_template)
           matched_lower == Lower(Slice(text, m[1], m[2]))
           original_key == Resolve(l2o, lm, matched_lower)
           f == Format(format_template, DictGet(dict, original_key), matched_lower)
       IN  IF ~sofar.ok THEN sofar
           ELSE IF original_key = None THEN sofar
           ELSE IF ~DictHas(dict, original_key)
                  THEN [ok |-> FALSE, list |-> sofar.list,
                        err |-> "KeyError:translation_dict"]
           ELSE IF ~f.ok
                  THEN [ok |-> FALSE, list |-> sofar.list, err |-> f.err]
           ELSE [ok |-> TRUE, list |-> Append(sofar.list, <<m[1], m[2], f.s>>),
                 err |-> "none"]

RECURSIVE Replacements_FirstOccurrenceOnly(_, _, _, _, _, _)
\* mutant: a key already substituted is skipped, as the matcher does
Replacements_FirstOccurrenceOnly(text, matches, l2o, lm, dict, format_template) ==
  IF matches = <<>> THEN [ok |-> TRUE, list |-> <<>>, err |-> "none"]
  ELSE LET m == matches[Len(matches)]
           sofar == Replacements_FirstOccurrenceOnly(
                      text, SubSeq(matches, 1, Len(matches) - 1),
                      l2o, lm, dict, format_template)
           matched_text == Slice(text, m[1], m[2])
           original_key == Resolve(l2o, lm, Lower(matched_text))
           seen == \E i \in 1..Len(sofar.list) :
                     Resolve(l2o, lm, Lower(Slice(text, sofar.list[i][1],
                                                  sofar.list[i][2]))) = original_key
           f == Format(format_template, DictGet(dict, original_key), matched_text)
       IN  IF ~sofar.ok THEN sofar
           ELSE IF original_key = None \/ seen THEN sofar
           ELSE IF ~DictHas(dict, original_key)
                  THEN [ok |-> FALSE, list |-> sofar.list,
                        err |-> "KeyError:translation_dict"]
           ELSE IF ~f.ok
                  THEN [ok |-> FALSE, list |-> sofar.list, err |-> f.err]
           ELSE [ok |-> TRUE, list |-> Append(sofar.list, <<m[1], m[2], f.s>>),
                 err |-> "none"]

RECURSIVE Replacements_SkipsFormatError(_, _, _, _, _, _)
\* mutant: a match whose template cannot be formatted is passed over
Replacements_SkipsFormatError(text, matches, l2o, lm, dict, format_template) ==
  IF matches = <<>> THEN [ok |-> TRUE, list |-> <<>>, err |-> "none"]
  ELSE LET m == matches[Len(matches)]
           sofar == Replacements_SkipsFormatError(
                      text, SubSeq(matches, 1, Len(matches) - 1),
                      l2o, lm, dict, format_template)
           matched_text == Slice(text, m[1], m[2])
           original_key == Resolve(l2o, lm, Lower(matched_text))
           f == Format(format_template, DictGet(dict, original_key), matched_text)
       IN  IF ~sofar.ok THEN sofar
           ELSE IF original_key = None THEN sofar
           ELSE IF ~DictHas(dict, original_key)
                  THEN [ok |-> FALSE, list |-> sofar.list, err |-> "KeyError:translation_dict"]
           ELSE IF ~f.ok THEN sofar
           ELSE [ok |-> TRUE, list |-> Append(sofar.list, <<m[1], m[2], f.s>>),
                 err |-> "none"]

RECURSIVE Replacements(_, _, _, _, _, _)
\* the loop of attach_translations_to_text over the matches: the list of
\* <<start, end, replacement>>, or an error
Replacements(text, matches, l2o, lm, dict, format_template) ==
  IF matches = <<>> THEN [ok |-> TRUE, list |-> <<>>, err |-> "none"]
  ELSE LET m == matches[Len(matches)]
           sofar == Replacements(text, SubSeq(matches, 1, Len(matches) - 1),
                                 l2o, lm, dict, format_template)
           matched_text == Slice(text, m[1], m[2])
           original_key == Resolve(l2o, lm, Lower(matched_text))
           f == Format(format_template, DictGet(dict, original_key), matched_text)
       IN  IF ~sofar.ok THEN sofar
           ELSE IF original_key = None THEN sofar
           ELSE IF ~DictHas(dict, original_key)
                  THEN [ok |-> FALSE, list |-> sofar.list, err |-> "KeyError:translation_dict"]
           ELSE IF ~f.ok
                  THEN [ok |-> FALSE, list |-> sofar.list, err |-> f.err]
           ELSE [ok |-> TRUE, list |-> Append(sofar.list, <<m[1], m[2], f.s>>),
                 err |-> "none"]

RECURSIVE ApplyReversed_Forward(_, _)
\* mutant: the substitutions spliced first to last (no reversed())
ApplyReversed_Forward(result, replacements) ==
  IF replacements = <<>> THEN result
  ELSE LET r == Head(replacements)
           spliced == Slice(result, 0, r[1]) \o r[3]
                        \o Slice(result, r[2], Len(result))
       IN  ApplyReversed_Forward(spliced, Tail(replacements))

RECURSIVE ApplyReversed(_, _)
\* for start, end, replacement in reversed(replacements): splice
ApplyReversed(result, replacements) ==
  IF replacements = <<>> THEN result
  ELSE LET r == replacements[Len(replacements)]
           spliced == Slice(result, 0, r[1]) \o r[3]
                        \o Slice(result, r[2], Len(result))
       IN  ApplyReversed(spliced, SubSeq(replacements, 1, Len(replacements) - 1))

\* result[:start] + replacement + result[end:]
Splice(result, r) ==
  Slice(result, 0, r[1]) \o r[3] \o Slice(result, r[2], Len(result))

RECURSIVE SpliceTrace_Forward(_, _)
\* mutant: the substitutions taken first to last (no reversed())
SpliceTrace_Forward(result, replacements) ==
  IF replacements = <<>> THEN <<>>
  ELSE LET r == Head(replacements)
       IN  <<[buffer |-> result, r |-> r]>>
             \o SpliceTrace_Forward(Splice(result, r), Tail(replacements))

RECURSIVE SpliceTrace(_, _)
\* the iterations of 'for start, end, replacement in reversed(replacements)'
\* in the order they run: the working buffer each one starts from and the
\* substitution it applies
SpliceTrace(result, replacements) ==
  IF replacements = <<>> THEN <<>>
  ELSE LET r == replacements[Len(replacements)]
       IN  <<[buffer |-> result, r |-> r]>>
             \o SpliceTrace(Splice(result, r),
                            SubSeq(replacements, 1, Len(replacements) - 1))

\* ------------------------------------------------------------------------
\* Inputs of the model: glossary files, texts, templates
\* ------------------------------------------------------------------------
s_fire == <<"f", "i", "r", "e">>

s_fire_ball == <<"f", "i", "r", "e", " ", "b", "a", "l", "l">>

s_Fireball == <<"F", "i", "r", "e", "b", "a", "l", "l">>

s_orc == <<"o", "r", "c">>

s_Orc == <<"O", "r", "c">>

s_orcs == <<"o", "r", "c", "s">>

s_run == <<"r", "u", "n">>

s_running == <<"r", "u", "n", "n", "i", "n", "g">>

s_ww == <<"w*", "w*">>

s_wwab == <<"w*", "w*", "a", "b">>

s_ran == <<"r", "a", "n">>

s_spell == <<"s", "p", "e", "l", "l">>

s_spells == <<"s", "p", "e", "l", "l", "s">>

s_ball == <<"b", "a", "l", "l">>

s_Spell == <<"S", "p", "e", "l", "l">>

s_c == <<"c">>

s_cplus == <<"c", "+">>

t_fire == <<"1">>

t_fire2 == <<"2">>

t_fire_ball == <<"1", "2", "3">>

t_orc == <<"4">>

t_Orc == <<"5">>

t_run == <<"6">>

t_running == <<"6", "7">>

t_ww == <<"8">>

t_ran == <<"6", "6">>

t_spell == <<"3">>

t_spells == <<"3", "3">>

t_ball == <<"7">>

t_Spell == <<"3", "0">>

t_c == <<"9">>

t_cplus == <<"9", "0">>

G_fire ==
  [exists |-> TRUE, readable |-> TRUE, ncols |-> 2, rows |->
   <<<<Cell(<<" ", "f", "i", "r", "e">>), Cell(t_fire)>>,
     <<Cell(<<"f", "i", "r", "e", " ", "b", "a", "l", "l", " ">>), Cell(t_fire_ball)>>,
     <<NaN, Cell(t_orc)>>,
     <<Cell(<<" ", " ">>), Cell(t_orc)>>,
     <<Cell(<<"o", "r", "c">>), Cell(<<" ">>)>>,
     <<Cell(<<"f", "i", "r", "e">>), Cell(t_fire2)>>,
     <<Cell(s_Fireball), Cell(t_fire_ball)>>>>]

G_run ==
  [exists |-> TRUE, readable |-> TRUE, ncols |-> 2, rows |->
   <<<<Cell(s_run), Cell(t_run)>>,
     <<Cell(s_c), Cell(t_c)>>,
     <<Cell(s_cplus), Cell(t_cplus)>>>>]

G_running ==
  [exists |-> TRUE, readable |-> TRUE, ncols |-> 2, rows |->
   <<<<Cell(<<"r", "u", "n", "n", "i", "n", "g">>), Cell(t_running)>>,
     <<Cell(<<"o", "r", "c", "s">>), Cell(t_orc)>>,
     <<Cell(<<"f", "i", "r", "e", " ", "b", "a", "l", "l">>), Cell(t_fire_ball)>>>>]

G_chunks ==
  [exists |-> TRUE, readable |-> TRUE, ncols |-> 2, rows |->
   <<<<Cell(<<"f", "i", "r", "e">>), Cell(t_fire)>>,
     <<Cell(<<"w*", "w*">>), Cell(t_ww)>>,
     <<Cell(<<"f", "i", "r", "e", " ", "b", "a", "l", "l">>), Cell(t_fire_ball)>>,
     <<Cell(s_ball), Cell(t_ball)>>>>]

G_long ==
  [exists |-> TRUE, readable |-> TRUE, ncols |-> 2, rows |->
   <<<<Cell(<<"f", "i", "r", "e">>), Cell(t_fire)>>,
     <<Cell(<<"w*", "w*", "a", "b">>), Cell(t_ww)>>,
     <<Cell(<<"f", "i", "r", "e", " ", "b", "a", "l", "l">>), Cell(t_fire_ball)>>>>]

G_ran ==
  [exists |-> TRUE, readable |-> TRUE, ncols |-> 2, rows |->
   <<<<Cell(s_ran), Cell(t_ran)>>,
     <<Cell(s_running), Cell(t_running)>>,
     <<Cell(s_Spell), Cell(t_Spell)>>,
     <<Cell(s_spell), Cell(t_spell)>>,
     <<Cell(s_spells), Cell(t_spells)>>>>]

G_blank ==
  [exists |-> TRUE, readable |-> TRUE, ncols |-> 2, rows |->
   <<<<NaN, Cell(t_orc)>>,
     <<Cell(<<" ">>), Cell(<<" ">>)>>,
     <<Cell(<<"o", "r", "c">>), NaN>>>>]

F_missing == [exists |-> FALSE, readable |-> FALSE, ncols |-> 0, rows |-> <<>>]

F_corrupt == [exists |-> TRUE, readable |-> FALSE, ncols |-> 0, rows |-> <<>>]

F_onecol ==
  [exists |-> TRUE, readable |-> TRUE, ncols |-> 1, rows |->
   <<<<Cell(s_orc), NaN>>>>]

Files ==
  {G_fire, G_run, G_running, G_chunks, G_long, G_ran, G_blank,
   F_missing, F_corrupt, F_onecol}

x_empty == <<>>

x_fire == <<"a", " ", "f", "i", "r", "e", " ", "b", "a", "l", "l", " ", "s", "p", "e", "l", "l">>

x_cast == <<"C", "a", "s", "t", " ", "F", "I", "R", "E", "B", "A", "L", "L", " ", "o", "n">>

x_orc == <<"o", "r", "c", " ", "o", "r", "c", " ", "o", "r", "c">>

x_running == <<"i", "s", " ", "r", "u", "n", "n", "i", "n", "g">>

x_run == <<"r", "u", "n", " ", "O", "r", "c", " ", "o", "r", "c", "s">>

x_ww == <<"w*", "w*", " ", "f", "i", "r", "e", " ", "b", "a", "l", "l", " ", "w*", "w*", "a", "b">>

x_plus == <<"c", "+", " ", "c", " ", "c", "+", "c">>

x_cplus == <<"c", "+">>

Texts == {x_empty, x_fire, x_cast, x_orc, x_running, x_run, x_ww, x_plus, x_cplus}

tpl_paren == <<"{", "translation", "}", "(", "{", "original", "}", ")">>

tpl_slash == <<"{", "original", "}", "/", "{", "translation", "}">>

tpl_empty == <<>>

tpl_original == <<"{", "original", "}">>

tpl_unknown == <<"{", "original", "}", "{", "source", "}">>

Templates == {tpl_paren, tpl_slash, tpl_empty, tpl_original, tpl_unknown}

\* ------------------------------------------------------------------------
\* State
\* ------------------------------------------------------------------------
VARIABLES
  translation_dict,     \* TranslationEngine.translation_dict
  regex,                \* TranslationEngine._regex
  lower_to_original,    \* TranslationEngine._lower_to_original
  lemma_map,            \* TranslationEngine._lemma_map
  indexes_built,        \* TranslationEngine._indexes_built
  nltk_initialized,     \* NLTKManager._initialized (_lemmatizer is set with it)
  call,                 \* the last call on the engine: arguments and outcome
  att,                  \* AttacherTab: the threads that use the tab's engine
  tab                   \* both tabs: buttons, flags, workers, pending callbacks

vars == <<translation_dict, regex, lower_to_original, lemma_map, indexes_built,
          nltk_initialized, call>>

NoCall ==
  [op |-> "none", file |-> F_missing, text |-> <<>>, template |-> <<>>,
   raised |-> "none", count |-> 0, terms |-> <<>>, result |-> <<>>,
   matches |-> <<>>, replacements |-> <<>>, rebuilt |-> FALSE,
   dict_before |-> <<>>, built_before |-> FALSE, stale_before |-> FALSE]

\* the index fields of the engine, as one record
Index(rx, l2o, lm, built) ==
  [regex |-> rx, lower_to_original |-> l2o, lemma_map |-> lm,
   indexes_built |-> built]

CurrentIndex == Index(regex, lower_to_original, lemma_map, indexes_built)

\* build_search_indexes: the outcomes of one call on dictionary dict with the
\* index fields idx, when the WordNet data is (avail) or is not obtainable.
\* An outcome is the index fields after the call, _initialized after the
\* call, and the exception raised.
BuildOutcomes(dict, idx, initialized, avail) ==
  IF dict = <<>>
    THEN {[index |-> Index(NoRegex, <<>>, <<>>, TRUE),
           initialized |-> initialized, raised |-> "none"]}
  ELSE
    LET init1 == initialize(initialized, avail)
        sorted_keys == SortedByLenDesc(DictKeys(dict))
        l2o == BuildLowerToOriginal(sorted_keys)
        needs_lemmatizer ==
          \E i \in 1..Len(sorted_keys) : IsSingleWord(Lower(sorted_keys[i]))
        lm == BuildLemmaMap(sorted_keys, l2o)
    IN  IF needs_lemmatizer /\ ~init1
          \* get_lemmatizer() returns None: lemmatizer.lemmatize raises
          THEN {[index |-> Index(idx.regex, l2o, <<>>, idx.indexes_built),
                 initialized |-> init1, raised |-> "AttributeError"]}
          ELSE {[index |-> Index(CompileRegex(o), l2o, lm, TRUE),
                 initialized |-> init1, raised |-> "none"] :
                   o \in SortedFormOrders(AllFormsLower(l2o, lm))}

\* mutant: _ensure_indexes without the test of the built flag
EnsureOutcomes_AlwaysRebuilds(dict, idx, initialized, avail) ==
  BuildOutcomes(dict, idx, initialized, avail)

\* _ensure_indexes
EnsureOutcomes(dict, idx, initialized, avail) ==
  IF ~idx.indexes_built THEN BuildOutcomes(dict, idx, initialized, avail)
  ELSE {[index |-> idx, initialized |-> initialized, raised |-> "none"]}

\* the matches of one scan of text with the index idx
ScanMatches(idx, text) ==
  IF text = <<>> \/ ~idx.regex.compiled THEN <<>>
  ELSE finditer(text, idx.regex.alts, 0, FALSE)

\* ------------------------------------------------------------------------
\* AttacherTab: the main thread and the background threads on self.engine
\* ------------------------------------------------------------------------
\* the thread of _load_engine_for_preview and the thread of _do_attaching
Workers == {"reload", "file"}

Threads == Workers \cup {"main"}

\* the threads that call attach_translations_to_text
Rewriters == {"main", "file"}

\* the glossary files the user selects in the tab
AttFiles == {G_run, G_running, F_missing}

\* the text of the input box and of the input file, the selected template
AttText == x_run

AttTemplate == tpl_paren

\* positions of a thread inside a method of TranslationEngine
LoadPcs == {"load_dict", "load_flag"}

BuildPcs == {"build_maps", "build_regex", "build_flag"}

AttachPcs == {"ensure", "scan", "collect"}

\* ------------------------------------------------------------------------
\* ExtractorTab and AttacherTab: buttons, workers and main-loop callbacks
\* ------------------------------------------------------------------------
\* the most threads of one kind alive at a time
MaxWorkers == 2

TabNames == {"extractor", "attacher"}

\* _do_preview, _do_export, _do_attaching
Kinds == {"preview", "export", "attach"}

Buttons == {"preview_btn", "export_btn", "attach_btn"}

\* the button that starts a worker of kind k, and the tab it belongs to
ButtonOf(k) ==
  CASE k = "preview" -> "preview_btn"
    [] k = "export" -> "export_btn"
    [] k = "attach" -> "attach_btn"

TabOf(k) == IF k = "attach" THEN "attacher" ELSE "extractor"

\* how the try block of a worker can end
Failures == {"FileNotFoundError", "ValueError", "Exception"}

TabInit ==
  [processing |-> [n \in TabNames |-> FALSE],
   button |-> [b \in Buttons |-> IF b = "export_btn" THEN "disabled" ELSE "normal"],
   found_terms |-> 0,
   running |-> [k \in Kinds |-> 0],
   finishing |-> [k \in Kinds |-> 0],
   last |-> "none",
   queue |-> <<>>]

NoOutcome == [done |-> FALSE, raised |-> "none", torn |-> FALSE, result |-> <<>>]

AttInit ==
  [engine_ready |-> FALSE,
   pc |-> [t \in Threads |-> "idle"],
   file |-> [t \in Workers |-> F_missing],
   in_attach |-> [t \in Rewriters |-> FALSE],
   matches |-> [t \in Rewriters |-> <<>>],
   outcome |-> [t \in Rewriters |-> NoOutcome]]

Init ==
  /\ att = AttInit
  /\ tab = TabInit
  /\ translation_dict = <<>>
  /\ regex = NoRegex
  /\ lower_to_original = <<>>
  /\ lemma_map = <<>>
  /\ indexes_built = FALSE
  /\ nltk_initialized = FALSE
  /\ call = NoCall

SetIndex(idx) ==
  /\ regex' = idx.regex
  /\ lower_to_original' = idx.lower_to_original
  /\ lemma_map' = idx.lemma_map
  /\ indexes_built' = idx.indexes_built

\* mutant: load_translation_table without the line that clears the flag
Load_KeepsBuiltFlag(file) ==
  LET err == LoadError(file)
      d == LoadedDict(file.rows)
      c == [NoCall EXCEPT !.op = "load", !.file = file, !.raised = err,
                          !.dict_before = translation_dict,
                          !.built_before = indexes_built,
                          !.stale_before = ~indexes_built /\ regex.compiled]
  IN  IF err # "none"
        THEN /\ call' = c
             /\ UNCHANGED <<translation_dict, regex, lower_to_original,
                            lemma_map, indexes_built, nltk_initialized>>
        ELSE /\ translation_dict' = d
             /\ call' = [c EXCEPT !.count = Len(d)]
             /\ UNCHANGED <<regex, lower_to_original, lemma_map, indexes_built,
                            nltk_initialized>>

\* mutant: load_translation_table clearing the built flag before its checks
Load_InvalidatesFirst(file) ==
  LET err == LoadError(file)
      d == LoadedDict(file.rows)
      c == [NoCall EXCEPT !.op = "load", !.file = file, !.raised = err,
                          !.dict_before = translation_dict,
                          !.built_before = indexes_built,
                          !.stale_before = ~indexes_built /\ regex.compiled]
  IN  IF err # "none"
        THEN /\ call' = c
             /\ indexes_built' = FALSE
             /\ UNCHANGED <<translation_dict, regex, lower_to_original,
                            lemma_map, nltk_initialized>>
        ELSE /\ translation_dict' = d
             /\ indexes_built' = FALSE
             /\ call' = [c EXCEPT !.count = Len(d)]
             /\ UNCHANGED <<regex, lower_to_original, lemma_map,
                            nltk_initialized>>

\* load_translation_table(excel_path)
Load(file) ==
  LET err == LoadError(file)
      d == LoadedDict(file.rows)
      c == [NoCall EXCEPT !.op = "load", !.file = file, !.raised = err,
                          !.dict_before = translation_dict,
                          !.built_before = indexes_built,
                             !.stale_before = ~indexes_built /\ regex.compiled]
  IN  IF err # "none"
        THEN /\ call' = c
             /\ UNCHANGED <<translation_dict, regex, lower_to_original,
                            lemma_map, indexes_built, nltk_initialized>>
        ELSE /\ translation_dict' = d
             /\ indexes_built' = FALSE
             /\ call' = [c EXCEPT !.count = Len(d)]
             /\ UNCHANGED <<regex, lower_to_original, lemma_map,
                            nltk_initialized>>

\* build_search_indexes()
Build(avail) ==
  \E out \in BuildOutcomes(translation_dict, CurrentIndex, nltk_initialized, avail) :
     /\ SetIndex(out.index)
     /\ nltk_initialized' = out.initialized
     /\ call' = [NoCall EXCEPT !.op = "build", !.raised = out.raised,
                               !.rebuilt = TRUE,
                               !.dict_before = translation_dict,
                               !.built_before = indexes_built,
                             !.stale_before = ~indexes_built /\ regex.compiled]
     /\ UNCHANGED translation_dict

\* mutant: find_terms_in_text emptying _lemma_map when it returns
Find_DropsLemmaMap(text, avail) ==
  \E out \in EnsureOutcomes(translation_dict, CurrentIndex, nltk_initialized, avail) :
  \E matches \in {ScanMatches(out.index, text)} :
     LET idx == out.index
         keyerr == FindKeyError(text, matches, idx.lower_to_original,
                                idx.lemma_map, translation_dict)
         c == [NoCall EXCEPT !.op = "find", !.text = text,
                             !.rebuilt = ~indexes_built,
                             !.dict_before = translation_dict,
                             !.built_before = indexes_built,
                             !.stale_before = ~indexes_built /\ regex.compiled]
     IN  /\ SetIndex([idx EXCEPT !.lemma_map =
                        IF out.raised = "none" /\ ~keyerr THEN <<>> ELSE @])
         /\ nltk_initialized' = out.initialized
         /\ UNCHANGED translation_dict
         /\ call' =
              IF out.raised # "none" THEN [c EXCEPT !.raised = out.raised]
              ELSE IF keyerr THEN [c EXCEPT !.raised = "KeyError:translation_dict",
                                           !.matches = matches]
              ELSE [c EXCEPT !.matches = matches,
                             !.terms = FoundTerms(text, matches, idx.lower_to_original,
                                                  idx.lemma_map, translation_dict)]

\* find_terms_in_text(text)
Find(text, avail) ==
  \E out \in EnsureOutcomes(translation_dict, CurrentIndex, nltk_initialized, avail) :
  \E matches \in {ScanMatches(out.index, text)} :
     LET idx == out.index
         keyerr == FindKeyError(text, matches, idx.lower_to_original,
                                idx.lemma_map, translation_dict)
         c == [NoCall EXCEPT !.op = "find", !.text = text,
                             !.rebuilt = ~indexes_built,
                             !.dict_before = translation_dict,
                             !.built_before = indexes_built,
                             !.stale_before = ~indexes_built /\ regex.compiled]
     IN  /\ SetIndex(idx)
         /\ nltk_initialized' = out.initialized
         /\ UNCHANGED translation_dict
         /\ call' =
              IF out.raised # "none" THEN [c EXCEPT !.raised = out.raised]
              ELSE IF keyerr THEN [c EXCEPT !.raised = "KeyError:translation_dict",
                                           !.matches = matches]
              ELSE [c EXCEPT !.matches = matches,
                             !.terms = FoundTerms(text, matches, idx.lower_to_original,
                                                  idx.lemma_map, translation_dict)]

\* attach_translations_to_text(text, format_template)
Attach(text, format_template, avail) ==
  \E out \in EnsureOutcomes(translation_dict, CurrentIndex, nltk_initialized, avail) :
  \E matches \in {ScanMatches(out.index, text)} :
  \E reps \in {Replacements(text, matches, out.index.lower_to_original,
                            out.index.lemma_map, translation_dict, format_template)} :
     LET c == [NoCall EXCEPT !.op = "attach", !.text = text,
                             !.template = format_template,
                             !.rebuilt = ~indexes_built,
                             !.dict_before = translation_dict,
                             !.built_before = indexes_built,
                             !.stale_before = ~indexes_built /\ regex.compiled]
     IN  /\ SetIndex(out.index)
         /\ nltk_initialized' = out.initialized
         /\ UNCHANGED translation_dict
         /\ call' =
              IF out.raised # "none" THEN [c EXCEPT !.raised = out.raised]
              ELSE IF ~reps.ok
                THEN [c EXCEPT !.raised = reps.err, !.matches = matches,
                               !.replacements = reps.list]
              ELSE [c EXCEPT !.matches = matches, !.replacements = reps.list,
                             !.result = ApplyReversed(text, reps.list)]

\* whether the WordNet data can be obtained matters to a call only if it
\* reaches NLTKManager.initialize before _initialized is set
BuildAvail == IF nltk_initialized \/ translation_dict = <<>> THEN {TRUE} ELSE BOOLEAN

EnsureAvail == IF indexes_built THEN {TRUE} ELSE BuildAvail

Next ==
  \/ (\E file \in Files : Load(file)) /\ UNCHANGED <<att, tab>>
  \/ (\E avail \in BuildAvail : Build(avail)) /\ UNCHANGED <<att, tab>>
  \/ (\E text \in Texts, avail \in EnsureAvail : Find(text, avail))
        /\ UNCHANGED <<att, tab>>
  \/ (\E text \in Texts, format_template \in Templates, avail \in EnsureAvail :
        Attach(text, format_template, avail)) /\ UNCHANGED <<att, tab>>

Spec == Init /\ [][Next]_vars

\* ------------------------------------------------------------------------
\* AttacherTab: steps of the threads on the shared engine. A step is a
\* stretch of one thread between two points where another thread can run.
\* ------------------------------------------------------------------------
EngineVars == <<translation_dict, regex, lower_to_original, lemma_map,
                indexes_built, nltk_initialized>>

\* _on_excel_file_change: run_in_thread(self._load_engine_for_preview, path)
StartReload(file) ==
  /\ att.pc["main"] = "idle"
  /\ att.pc["reload"] = "idle"
  /\ att' = [att EXCEPT !.pc["reload"] = "call_load", !.file["reload"] = file]
  /\ UNCHANGED <<EngineVars, call, tab>>

\* _start_attaching: run_in_thread(self._do_attaching, ...); the button is
\* disabled while a thread of _do_attaching is alive
StartAttaching(file) ==
  /\ att.pc["main"] = "idle"
  /\ att.pc["file"] = "idle"
  /\ att' = [att EXCEPT !.pc["file"] = "call_load", !.file["file"] = file,
                        !.outcome["file"] = NoOutcome]
  /\ UNCHANGED <<EngineVars, call, tab>>

\* the thread calls self.engine.load_translation_table(excel_path)
EnterLoad(t) ==
  /\ att.pc[t] = "call_load"
  /\ att' = [att EXCEPT !.pc[t] = "load_dict"]
  /\ UNCHANGED <<EngineVars, call, tab>>

\* load_translation_table up to the assignment of translation_dict; an
\* exception ends the thread (_load_engine_for_preview clears _engine_ready)
LoadDict(t) ==
  /\ att.pc[t] = "load_dict"
  /\ IF LoadError(att.file[t]) # "none"
       THEN /\ att' = [att EXCEPT !.pc[t] = "idle",
                                  !.engine_ready = IF t = "reload" THEN FALSE ELSE @]
            /\ UNCHANGED translation_dict
       ELSE /\ translation_dict' = LoadedDict(att.file[t].rows)
            /\ att' = [att EXCEPT !.pc[t] = "load_flag"]
  /\ UNCHANGED <<regex, lower_to_original, lemma_map, indexes_built,
                 nltk_initialized, call, tab>>

\* load_translation_table: self._indexes_built = False, return
LoadFlag(t) ==
  /\ att.pc[t] = "load_flag"
  /\ indexes_built' = FALSE
  /\ att' = [att EXCEPT !.pc[t] = "call_build"]
  /\ UNCHANGED <<translation_dict, regex, lower_to_original, lemma_map,
                 nltk_initialized, call, tab>>

\* the thread calls self.engine.build_search_indexes()
EnterBuild(t) ==
  /\ att.pc[t] = "call_build"
  /\ att' = [att EXCEPT !.pc[t] = "build_maps"]
  /\ UNCHANGED <<EngineVars, call, tab>>

\* build_search_indexes up to the lemma loop (the WordNet data is at hand)
BuildMaps(t) ==
  /\ att.pc[t] = "build_maps"
  /\ IF translation_dict = <<>>
       THEN /\ regex' = NoRegex
            /\ lower_to_original' = <<>>
            /\ lemma_map' = <<>>
            /\ indexes_built' = TRUE
            /\ att' = [att EXCEPT !.pc[t] = "after_build"]
            /\ UNCHANGED nltk_initialized
       ELSE LET sorted_keys == SortedByLenDesc(DictKeys(translation_dict))
                l2o == BuildLowerToOriginal(sorted_keys)
            IN  /\ nltk_initialized' = initialize(nltk_initialized, TRUE)
                /\ lower_to_original' = l2o
                /\ lemma_map' = BuildLemmaMap(sorted_keys, l2o)
                /\ att' = [att EXCEPT !.pc[t] = "build_regex"]
                /\ UNCHANGED <<regex, indexes_built>>
  /\ UNCHANGED <<translation_dict, call, tab>>

\* build_search_indexes: the pattern compiled from the two maps of self
BuildRegex(t) ==
  /\ att.pc[t] = "build_regex"
  /\ LET forms == AllFormsLower(lower_to_original, lemma_map)
     IN  IF forms = {} THEN regex' = NoRegex
         ELSE \E o \in SortedFormOrders(forms) : regex' = CompileRegex(o)
  /\ att' = [att EXCEPT !.pc[t] = "build_flag"]
  /\ UNCHANGED <<translation_dict, lower_to_original, lemma_map, indexes_built,
                 nltk_initialized, call, tab>>

\* build_search_indexes: self._indexes_built = True, return
BuildFlag(t) ==
  /\ att.pc[t] = "build_flag"
  /\ indexes_built' = TRUE
  /\ att' = [att EXCEPT !.pc[t] = "after_build"]
  /\ UNCHANGED <<translation_dict, regex, lower_to_original, lemma_map,
                 nltk_initialized, call, tab>>

\* after build_search_indexes returned: a lazy build goes on with the scan,
\* _load_engine_for_preview sets _engine_ready, _do_attaching calls
\* attach_translations_to_text
AfterBuild(t) ==
  /\ att.pc[t] = "after_build"
  /\ att' = IF t \in Rewriters /\ att.in_attach[t]
              THEN [att EXCEPT !.pc[t] = "scan"]
            ELSE IF t = "reload"
              THEN [att EXCEPT !.pc[t] = "idle", !.engine_ready = TRUE]
            ELSE [att EXCEPT !.pc[t] = "ensure", !.in_attach[t] = TRUE]
  /\ UNCHANGED <<EngineVars, call, tab>>

\* _update_live_preview with _engine_ready set and a non-blank input:
\* the main thread calls attach_translations_to_text
UpdateLivePreview ==
  /\ att.pc["main"] = "idle"
  /\ att.engine_ready
  /\ att' = [att EXCEPT !.pc["main"] = "ensure", !.in_attach["main"] = TRUE,
                        !.outcome["main"] = NoOutcome]
  /\ UNCHANGED <<EngineVars, call, tab>>

\* attach_translations_to_text: _ensure_indexes
Ensure(t) ==
  /\ att.pc[t] = "ensure"
  /\ att' = [att EXCEPT !.pc[t] = IF indexes_built THEN "scan" ELSE "build_maps"]
  /\ UNCHANGED <<EngineVars, call, tab>>

\* attach_translations_to_text: self._regex.finditer(text)
Scan(t) ==
  /\ att.pc[t] = "scan"
  /\ att' = [att EXCEPT !.pc[t] = "collect",
                        !.matches[t] = ScanMatches(CurrentIndex, AttText)]
  /\ UNCHANGED <<EngineVars, call, tab>>

\* attach_translations_to_text: the loop over the matches, the splices and
\* the return (or the exception)
Collect(t) ==
  /\ att.pc[t] = "collect"
  /\ \E reps \in {Replacements(AttText, att.matches[t], lower_to_original,
                               lemma_map, translation_dict, AttTemplate)} :
       att' = [att EXCEPT
                 !.pc[t] = "idle",
                 !.in_attach[t] = FALSE,
                 !.matches[t] = <<>>,
                 !.outcome[t] =
                    [done |-> TRUE,
                     raised |-> IF reps.ok THEN "none" ELSE reps.err,
                     torn |-> lower_to_original # BuildLowerToOriginal(
                                SortedByLenDesc(DictKeys(translation_dict))),
                     result |-> IF reps.ok THEN ApplyReversed(AttText, reps.list)
                                ELSE <<>>]]
  /\ UNCHANGED <<EngineVars, call, tab>>

NextAttacher ==
  \/ \E file \in AttFiles : StartReload(file)
  \/ \E file \in AttFiles : StartAttaching(file)
  \/ UpdateLivePreview
  \/ \E t \in Workers : EnterLoad(t)
  \/ \E t \in Workers : LoadDict(t)
  \/ \E t \in Workers : LoadFlag(t)
  \/ \E t \in Workers : EnterBuild(t)
  \/ \E t \in Threads : BuildMaps(t)
  \/ \E t \in Threads : BuildRegex(t)
  \/ \E t \in Threads : BuildFlag(t)
  \/ \E t \in Threads : AfterBuild(t)
  \/ \E t \in Rewriters : Ensure(t)
  \/ \E t \in Rewriters : Scan(t)
  \/ \E t \in Rewriters : Collect(t)

SpecAttacher == Init /\ [][NextAttacher]_<<vars, att>>

\* ------------------------------------------------------------------------
\* ExtractorTab and AttacherTab: the handlers of the main thread, the
\* workers, and the callbacks the workers hand to the main loop with
\* parent.after(0, ...). The callbacks that only write to the log box are
\* left out, the log box not being part of the state. found_terms is the
\* number of entries of _found_terms.
\* ------------------------------------------------------------------------
\* BaseTab.set_processing(is_processing, button)
set_processing(t, is_processing, button) ==
  [t EXCEPT !.processing[IF button = "attach_btn" THEN "attacher" ELSE "extractor"]
              = is_processing,
            !.button[button] = IF is_processing THEN "disabled" ELSE "normal"]

\* ExtractorTab._clear_preview
clear_preview(t) ==
  [t EXCEPT !.found_terms = 0, !.button["export_btn"] = "disabled"]

\* ExtractorTab._update_preview(terms)
update_preview(t, n) ==
  [t EXCEPT !.found_terms = n,
            !.button["export_btn"] = IF n > 0 THEN "normal" ELSE "disabled"]

\* run_in_thread(target): one more live worker of kind k
run_in_thread(t, k) == [t EXCEPT !.running[k] = @ + 1]

\* ExtractorTab._on_text_file_change / _on_excel_file_change, from the
\* browse button of a file selector
on_file_change ==
  /\ tab' = clear_preview(tab)
  /\ UNCHANGED <<vars, att>>

\* ExtractorTab._start_preview, the command of preview_btn; paths_ok: the
\* text path and the glossary path are both given
start_preview(paths_ok) ==
  /\ tab.button["preview_btn"] = "normal"
  /\ tab.running["preview"] + tab.finishing["preview"] < MaxWorkers
  /\ tab' = IF ~paths_ok THEN tab
            ELSE run_in_thread(
                   set_processing(clear_preview(tab), TRUE, "preview_btn"),
                   "preview")
  /\ UNCHANGED <<vars, att>>

\* ExtractorTab._export_results, the command of export_btn
export_results ==
  /\ tab.button["export_btn"] = "normal"
  /\ tab.running["export"] + tab.finishing["export"] < MaxWorkers
  /\ tab' = IF tab.found_terms = 0 THEN tab
            ELSE run_in_thread(set_processing(tab, TRUE, "export_btn"), "export")
  /\ UNCHANGED <<vars, att>>

\* AttacherTab._start_attaching, the command of attach_btn; paths_ok: the
\* input path and the glossary path are both given
start_attaching(paths_ok) ==
  /\ tab.button["attach_btn"] = "normal"
  /\ tab.running["attach"] + tab.finishing["attach"] < MaxWorkers
  /\ tab' = IF ~paths_ok THEN tab
            ELSE run_in_thread(set_processing(tab, TRUE, "attach_btn"), "attach")
  /\ UNCHANGED <<vars, att>>

\* mutant: a worker whose try block fails ends without its finally clause
do_try_NoFinallyOnFailure(k, outcome, n) ==
  /\ tab.running[k] > 0
  /\ tab' = [tab EXCEPT
               !.running[k] = @ - 1,
               !.finishing[k] = IF outcome \in Failures THEN @ ELSE @ + 1,
               !.last = outcome,
               !.queue = IF k = "preview" /\ outcome = "ok"
                           THEN Append(@, [cb |-> "update_preview", n |-> n,
                                           button |-> "export_btn"])
                           ELSE @]
  /\ UNCHANGED <<vars, att>>

\* the try block of _do_preview, _do_export or _do_attaching up to its end
\* or its exception; _do_preview that found n terms hands _update_preview
\* to the main loop
do_try(k, outcome, n) ==
  /\ tab.running[k] > 0
  /\ tab' = [tab EXCEPT
               !.running[k] = @ - 1,
               !.finishing[k] = @ + 1,
               !.last = outcome,
               !.queue = IF k = "preview" /\ outcome = "ok"
                           THEN Append(@, [cb |-> "update_preview", n |-> n,
                                           button |-> "export_btn"])
                           ELSE @]
  /\ UNCHANGED <<vars, att>>

\* the finally clause of a worker:
\* parent.after(0, lambda: self.set_processing(False, button))
do_finally(k) ==
  /\ tab.finishing[k] > 0
  /\ tab' = [tab EXCEPT
               !.finishing[k] = @ - 1,
               !.queue = Append(@, [cb |-> "set_processing", n |-> 0,
                                    button |-> ButtonOf(k)])]
  /\ UNCHANGED <<vars, att>>

\* the main loop runs the oldest pending callback
RunCallback ==
  /\ tab.queue # <<>>
  /\ LET c == Head(tab.queue)
         t == [tab EXCEPT !.queue = Tail(@)]
     IN  tab' = IF c.cb = "update_preview" THEN update_preview(t, c.n)
                ELSE set_processing(t, FALSE, c.button)
  /\ UNCHANGED <<vars, att>>

\* a worker's try block ends normally or with an exception
Work(k) ==
  \/ \E n \in 0..1 : do_try(k, "ok", n)
  \/ \E outcome \in Failures : do_try(k, outcome, 0)

NextTabs ==
  \/ on_file_change
  \/ \E paths_ok \in BOOLEAN : start_preview(paths_ok)
  \/ export_results
  \/ \E paths_ok \in BOOLEAN : start_attaching(paths_ok)
  \/ \E k \in Kinds : Work(k)
  \/ \E k \in Kinds : do_finally(k)
  \/ RunCallback

SpecTabs == Init /\ [][NextTabs]_tab

\* every started thread runs on to its end, and the main loop runs every
\* pending callback
FairSpecTabs ==
  /\ SpecTabs
  /\ \A k \in Kinds : WF_tab(Work(k)) /\ WF_tab(do_finally(k))
  /\ WF_tab(RunCallback)

\* ------------------------------------------------------------------------
\* Reference notions the properties are stated with
\* ------------------------------------------------------------------------
\* the last call returned normally
Returned(op) == call.op = op /\ call.raised = "none"

\* the recognized forms (surface or lemma) that occur in text at offset s
\* between two word boundaries
MatchingForms(text, s) ==
  {f \in AllFormsLower(lower_to_original, lemma_map) :
     /\ s + Len(f) <= Len(text)
     /\ Lower(Slice(text, s, s + Len(f))) = f
     /\ Boundary(text, s)
     /\ Boundary(text, s + Len(f))}

\* length of the longest form of a non-empty set
LongestLen(forms) == CHOOSE n \in {Len(f) : f \in forms} : \A g \in forms : Len(g) <= n

\* the text a match covers
MatchedText(m) == Slice(call.text, m[1], m[2])

\* the matches of the last scan that cover at least one character
ConsumedSpans == {i \in 1..Len(call.matches) : call.matches[i][2] > call.matches[i][1]}

\* C1: at the start offset of every span consumed by find_terms_in_text or
\* attach_translations_to_text, the span is the longest recognized form that
\* matches there between word boundaries, also for a chunked alternation
C1_LongestMatchPrecedence ==
  call.op \in {"find", "attach"} =>
    \A i \in ConsumedSpans :
       LET m == call.matches[i]
       IN  /\ MatchingForms(call.text, m[1]) # {}
           /\ m[2] - m[1] = LongestLen(MatchingForms(call.text, m[1]))

\* C1 witness: with a chunked alternation holding 'fire' and 'fire ball',
\* find on a text with 'fire ball' returned 'fire ball' and not 'fire'
C1_Witness ==
  /\ Returned("find")
  /\ Len(regex.chunks) > 1
  /\ \E i \in ConsumedSpans :
        /\ Cardinality(MatchingForms(call.text, call.matches[i][1])) > 1
        /\ MatchedText(call.matches[i]) = s_fire_ball
  /\ \E i \in 1..Len(call.terms) : call.terms[i][1] = s_fire_ball
  /\ \A i \in 1..Len(call.terms) : call.terms[i][1] # s_fire

\* the maximal runs of word characters of text, as <<start, end>>
WordSpans(text) ==
  {sp \in (0..Len(text)) \X (0..Len(text)) :
     /\ sp[1] < sp[2]
     /\ \A i \in (sp[1] + 1)..sp[2] : IsWordChar(text[i])
     /\ Boundary(text, sp[1])
     /\ Boundary(text, sp[2])}

\* no recognized form other than the one on span sp itself matches on a span
\* that overlaps sp
Unrivalled(text, sp) ==
  \A s \in 0..Len(text) : \A f \in MatchingForms(text, s) :
     (s < sp[2] /\ s + Len(f) > sp[1]) => <<s, s + Len(f)>> = sp

\* the entry of key k in the current dictionary
Entry(k) == <<k, DictGet(translation_dict, k)>>

CanonicalKey(matched_text) ==
  Resolve(lower_to_original, lemma_map, Lower(matched_text))

\* what the well-formed templates of the model expand to
Expansion(template, translation, original) ==
  CASE template = tpl_paren -> translation \o <<"(">> \o original \o <<")">>
    [] template = tpl_slash -> original \o <<"/">> \o translation
    [] template = tpl_empty -> <<>>
    [] template = tpl_original -> original

\* C3: every substitution of attach_translations_to_text is the template
\* with {original} bound to the matched text in the casing of the input and
\* {translation} bound to the translation of the resolved canonical key
C3_CasePreservingRewrite ==
  Returned("attach") =>
    \A i \in 1..Len(call.replacements) :
       LET r == call.replacements[i]
           original == Slice(call.text, r[1], r[2])
           key == CanonicalKey(original)
       IN  /\ DictHas(translation_dict, key)
           /\ r[3] = Expansion(call.template, DictGet(translation_dict, key), original)

\* C3 witness: 'Cast FIREBALL on' rewritten with "{translation}({original})"
\* over a dictionary whose key is 'Fireball'
C3_Witness ==
  /\ Returned("attach")
  /\ call.text = x_cast
  /\ call.template = tpl_paren
  /\ DictHas(translation_dict, s_Fireball)
  /\ call.result = <<"C", "a", "s", "t", " ">> \o t_fire_ball
                     \o <<"(", "F", "I", "R", "E", "B", "A", "L", "L", ")", " ", "o", "n">>

RECURSIVE RefSpans(_, _)
\* the non-overlapping occurrences of recognized forms in text from offset
\* pos on: leftmost first, the longest form at each start
RefSpans(text, pos) ==
  LET starts == {s \in pos..Len(text) : MatchingForms(text, s) # {}}
  IN  IF starts = {} THEN <<>>
      ELSE LET s == CHOOSE x \in starts : \A y \in starts : x <= y
               e == s + LongestLen(MatchingForms(text, s))
           IN  <<<<s, e>>>> \o RefSpans(text, e)

\* C4: attach_translations_to_text makes one substitution per occurrence:
\* the substituted spans are exactly the non-overlapping occurrences of
\* recognized forms, repetitions of one term included
C4_EveryOccurrenceReplaced ==
  Returned("attach") =>
    [i \in 1..Len(call.replacements) |->
       <<call.replacements[i][1], call.replacements[i][2]>>]
      = RefSpans(call.text, 0)

\* C4 witness: 'orc orc orc' rewritten with "{original}/{translation}" has
\* three substitutions
C4_Witness ==
  /\ Returned("attach")
  /\ call.text = x_orc
  /\ call.template = tpl_slash
  /\ Len(call.replacements) = 3
  /\ call.result = s_orc \o <<"/">> \o t_orc \o <<" ">> \o s_orc \o <<"/">> \o t_orc
                     \o <<" ">> \o s_orc \o <<"/">> \o t_orc

RECURSIVE ForwardSplice(_, _, _)
\* the text from offset pos on, with each span of reps (ascending) replaced
\* and everything between the spans copied
ForwardSplice(text, reps, pos) ==
  IF reps = <<>> THEN Slice(text, pos, Len(text))
  ELSE LET r == Head(reps)
       IN  Slice(text, pos, r[1]) \o r[3] \o ForwardSplice(text, Tail(reps), r[2])

RECURSIVE SumGrowth(_)
\* sum over the substitutions of (substitution length - matched length)
SumGrowth(reps) ==
  IF reps = <<>> THEN 0
  ELSE LET r == Head(reps)
       IN  StrLen(r[3]) - StrLen(Slice(call.text, r[1], r[2])) + SumGrowth(Tail(reps))

\* C7: the output of attach_translations_to_text is the input with each
\* matched span replaced by its substitution and every other character kept
\* in place and order; its length is the input's plus the summed growth
C7_RewriteFrameAndLength ==
  Returned("attach") =>
    /\ call.result = ForwardSplice(call.text, call.replacements, 0)
    /\ StrLen(call.result) = StrLen(call.text) + SumGrowth(call.replacements)

\* C7 witness: a rewrite with several substitutions that changed the length
C7_Witness ==
  /\ Returned("attach")
  /\ Len(call.replacements) >= 2
  /\ StrLen(call.result) # StrLen(call.text)
  /\ \E i \in 1..Len(call.text) : ~(\E j \in 1..Len(call.replacements) :
        call.replacements[j][1] < i /\ i <= call.replacements[j][2])

\* offset of the first match that resolves to key k
FirstOffset(k) ==
  LET at == {call.matches[i][1] : i \in {j \in ConsumedSpans :
                                         CanonicalKey(MatchedText(call.matches[j])) = k}}
  IN  CHOOSE x \in at : \A y \in at : x <= y

\* C5: the mapping find_terms_in_text returns holds every canonical key the
\* scan resolved exactly once, in the order of the keys' first occurrences
C5_FindDeduplicates ==
  Returned("find") =>
    /\ \A i, j \in 1..Len(call.terms) : i # j => call.terms[i][1] # call.terms[j][1]
    /\ {call.terms[i][1] : i \in 1..Len(call.terms)}
         = {CanonicalKey(MatchedText(call.matches[i])) : i \in ConsumedSpans}
    /\ \A i, j \in 1..Len(call.terms) :
          i < j => FirstOffset(call.terms[i][1]) < FirstOffset(call.terms[j][1])

\* C5 witness: two occurrences of one term in different casing or form
\* ('Orc' through the lemma, 'orcs' as surface) gave one entry, after the
\* entry of a term that occurs earlier
C5_Witness ==
  /\ Returned("find")
  /\ Len(call.terms) = 2
  /\ \E i, j \in ConsumedSpans :
        /\ i # j
        /\ MatchedText(call.matches[i]) # MatchedText(call.matches[j])
        /\ CanonicalKey(MatchedText(call.matches[i])) = call.terms[2][1]
        /\ CanonicalKey(MatchedText(call.matches[j])) = call.terms[2][1]

\* C6: every key of the mapping find_terms_in_text returns is a key of the
\* dictionary as authored, with the dictionary's translation as its value
C6_FindIsSound ==
  Returned("find") =>
    \A i \in 1..Len(call.terms) :
       /\ DictHas(translation_dict, call.terms[i][1])
       /\ call.terms[i][2] = DictGet(translation_dict, call.terms[i][1])

\* C6 witness: 'FIREBALL' in the text is reported under the authored key
\* 'Fireball'
C6_Witness ==
  /\ Returned("find")
  /\ call.text = x_cast
  /\ call.terms = <<<<s_Fireball, t_fire_ball>>>>

\* the outcomes of building an index from the current dictionary on an
\* engine that has none, with the lemmatizer at hand
FreshOutcomes ==
  BuildOutcomes(translation_dict, Index(NoRegex, <<>>, <<>>, FALSE), TRUE, TRUE)

FreshTerms(o) ==
  FoundTerms(call.text, ScanMatches(o.index, call.text),
             o.index.lower_to_original, o.index.lemma_map, translation_dict)

FreshRewrite(o) ==
  ApplyReversed(call.text,
                Replacements(call.text, ScanMatches(o.index, call.text),
                             o.index.lower_to_original, o.index.lemma_map,
                             translation_dict, call.template).list)

\* C8: a load clears the built flag; a built index is one that a fresh build
\* of the current dictionary yields; every result of find and rewrite equals
\* the result over a freshly built index; no lookup of a stale key fails
C8_NoStaleIndex ==
  /\ Returned("load") => ~indexes_built
  /\ indexes_built => CurrentIndex \in {o.index : o \in FreshOutcomes}
  /\ (call.op \in {"find", "attach"} /\ call.raised = "none") => indexes_built
  /\ Returned("find") => \A o \in FreshOutcomes : call.terms = FreshTerms(o)
  /\ Returned("attach") => \A o \in FreshOutcomes : call.result = FreshRewrite(o)
  /\ call.raised # "KeyError:translation_dict"

\* C8 witness: find returned terms on an engine whose compiled pattern was
\* left over from before the last load
C8_Witness ==
  /\ Returned("find")
  /\ call.stale_before
  /\ call.rebuilt
  /\ call.terms # <<>>

\* C9: after a successful load the dictionary holds exactly the trimmed
\* source fields of the rows with two non-empty trimmed fields, each with
\* the trimmed target of the last such row, and nothing of the dictionary
\* before; the count returned is the number of distinct keys
C9_LoadIsFold ==
  Returned("load") =>
    LET rows == call.file.rows
        valid == {i \in 1..Len(rows) :
                    /\ ~rows[i][1].na /\ ~rows[i][2].na
                    /\ Strip(rows[i][1].s) # <<>> /\ Strip(rows[i][2].s) # <<>>}
        keys == {Strip(rows[i][1].s) : i \in valid}
    IN  /\ DictKeySet(translation_dict) = keys
        /\ Len(translation_dict) = Cardinality(keys)
        /\ call.count = Cardinality(keys)
        /\ \A i \in valid :
              (\A j \in valid : j > i => Strip(rows[j][1].s) # Strip(rows[i][1].s))
                => DictGet(translation_dict, Strip(rows[i][1].s)) = Strip(rows[i][2].s)

\* C9 witness: a glossary with padded fields, blank rows and a repeated key
\* loaded over another glossary
C9_Witness ==
  /\ Returned("load")
  /\ call.file = G_fire
  /\ call.count = 3
  /\ DictGet(translation_dict, s_fire) = t_fire2
  /\ \E k \in DictKeySet(call.dict_before) : ~DictHas(translation_dict, k)

\* C10 (as claimed): with an empty dictionary or an empty text find returns
\* an empty mapping and rewrite returns its input, without raising; a build
\* over an empty dictionary marks the index built with empty tables
C10_EmptyInputsAreNoOps ==
  /\ (call.op = "find" /\ (call.text = <<>> \/ translation_dict = <<>>))
        => (call.raised = "none" /\ call.terms = <<>>)
  /\ (call.op = "attach" /\ (call.text = <<>> \/ translation_dict = <<>>))
        => (call.raised = "none" /\ call.result = call.text)
  /\ (call.op = "build" /\ translation_dict = <<>>)
        => /\ call.raised = "none"
           /\ indexes_built
           /\ ~regex.compiled
           /\ lower_to_original = <<>>
           /\ lemma_map = <<>>


\* the checks of load_translation_table reject the file
LoadFails(file) == ~file.exists \/ ~file.readable \/ file.ncols < 2

\* C11: a load whose file is missing, unparseable or has fewer than two
\* columns raises, and the step leaves the dictionary, the compiled pattern,
\* both lookup tables and the built flag exactly as they were
C11_FailedLoadChangesNothing ==
  [][(call'.op = "load" /\ LoadFails(call'.file)) =>
       /\ call'.raised # "none"
       /\ UNCHANGED <<translation_dict, regex, lower_to_original, lemma_map,
                      indexes_built>>]_vars

\* a load failed on an engine that holds a dictionary and a built index
C11_Witness ==
  /\ call.op = "load"
  /\ call.raised = "ValueError"
  /\ call.file = F_onecol
  /\ translation_dict # <<>>
  /\ indexes_built
  /\ regex.compiled
  /\ lemma_map # <<>>

\* the rows of a sheet that survive cleaning
ValidRows(rows) ==
  {i \in 1..Len(rows) :
     /\ ~rows[i][1].na
     /\ ~rows[i][2].na
     /\ Strip(rows[i][1].s) # <<>>
     /\ Strip(rows[i][2].s) # <<>>}

\* C12 (as claimed): a load of a readable sheet with at least two columns
\* but no valid row after cleaning raises the empty-or-malformed error
\* (ValueError) instead of returning with an empty dictionary
C12_ZeroValidRowsFails ==
  (/\ call.op = "load"
   /\ ~LoadFails(call.file)
   /\ ValidRows(call.file.rows) = {})
     => call.raised = "ValueError"

\* the single-word keys of sorted_keys whose lemma is l, in the order of
\* sorted_keys
LemmaWriters(sorted_keys, l) ==
  SelectSeq(sorted_keys,
            LAMBDA k : /\ \A i \in 1..Len(k) : k[i] # " "
                       /\ Lemmatize(Lemmatize(Lower(k), "v"), "n") = l
                       /\ l # Lower(k))

\* C13 (as claimed): in a built index every lemma is mapped to the first of
\* the single-word keys that produce it, in length-descending stable order
\* of the dictionary keys; a later key never overwrites it
C13_LemmaFirstWriterWins ==
  indexes_built =>
    \A i \in 1..Len(lemma_map) :
       lemma_map[i][2] =
         Head(LemmaWriters(SortedByLenDesc(DictKeys(translation_dict)),
                           lemma_map[i][1]))

\* self._lemma_map.get(m) or self._lower_to_original.get(m)
ResolveLemmaFirst(l2o, lm, matched_lower) ==
  IF DictGet(lm, matched_lower) # None THEN DictGet(lm, matched_lower)
  ELSE DictGet(l2o, matched_lower)

\* C14: in a built index every lemma-map entry (l -> k) has k a dictionary
\* key without a space, l the verb-then-noun lemma of lower(k), l # lower(k)
\* and l no key of the surface map; so the key sets of the two maps are
\* disjoint and resolving surface-first or lemma-first gives the same key
C14_LemmaMapInvariant ==
  indexes_built =>
    /\ \A i \in 1..Len(lemma_map) :
         LET l == lemma_map[i][1]
             k == lemma_map[i][2]
         IN  /\ DictHas(translation_dict, k)
             /\ \A j \in 1..Len(k) : k[j] # " "
             /\ l = Lemmatize(Lemmatize(Lower(k), "v"), "n")
             /\ l # Lower(k)
             /\ ~DictHas(lower_to_original, l)
    /\ DictKeySet(lower_to_original) \cap DictKeySet(lemma_map) = {}
    /\ \A f \in DictKeySet(lower_to_original) \cup DictKeySet(lemma_map) :
         Resolve(lower_to_original, lemma_map, f)
           = ResolveLemmaFirst(lower_to_original, lemma_map, f)

\* a built index with a lemma entry, over a dictionary where the lemma of
\* another key ('spells') is itself a key ('spell') and is not registered
C14_Witness ==
  /\ indexes_built
  /\ DictHas(translation_dict, s_spells)
  /\ DictHas(translation_dict, s_spell)
  /\ DictHas(lemma_map, s_run)
  /\ ~DictHas(lemma_map, s_spell)
  /\ DictGet(lower_to_original, s_spell) = s_spell

\* C15 (as claimed): a build during which NLTKManager.initialize returns
\* False completes without raising and leaves the index built with a
\* compiled surface pattern and an empty lemma map
C15_UnavailableLemmatizerDegradesSoftly ==
  (call.op = "build" /\ translation_dict # <<>> /\ ~nltk_initialized) =>
    /\ call.raised = "none"
    /\ indexes_built
    /\ regex.compiled
    /\ lemma_map = <<>>
    /\ DictKeySet(lower_to_original)
         = {Lower(k) : k \in DictKeySet(translation_dict)}

\* C16 (as claimed): every span the compiled pattern accepts in a scan of
\* find or rewrite resolves: its lowercased text is a key of the surface
\* map or of the lemma map
C16_EveryMatchResolves ==
  call.op \in {"find", "attach"} =>
    \A i \in 1..Len(call.matches) :
       Resolve(lower_to_original, lemma_map,
               Lower(MatchedText(call.matches[i]))) # None

RECURSIVE ChunkBudget(_)
\* the budget of a group: the sum over its terms of escaped length + 1
\* (a group flushed from an empty buffer has no term)
ChunkBudget(chunk) ==
  IF chunk = <<>> \/ chunk = << <<>> >> THEN 0
  ELSE StrLen(Head(chunk)) + 1 + ChunkBudget(Tail(chunk))

\* C17 (as claimed): every group of the compiled alternation has a budget
\* of at most MAX_PATTERN_LEN
C17_ChunkBudget ==
  regex.compiled =>
    \A i \in 1..Len(regex.chunks) : ChunkBudget(regex.chunks[i]) <= MAX_PATTERN_LEN

\* C17 (amended): every group of the compiled alternation has a budget of
\* at most MAX_PATTERN_LEN, unless it holds a single term whose own escaped
\* length + 1 exceeds MAX_PATTERN_LEN
C17_ChunkBudgetUnlessSingleTerm ==
  regex.compiled =>
    \A i \in 1..Len(regex.chunks) :
       \/ ChunkBudget(regex.chunks[i]) <= MAX_PATTERN_LEN
       \/ Len(regex.chunks[i]) = 1

\* a compiled alternation split into a group of one long term and a group
\* of several terms
C17_Witness ==
  /\ indexes_built
  /\ regex.compiled
  /\ Len(regex.chunks) = 2
  /\ regex.chunks[1] = <<s_ww>>
  /\ Len(regex.chunks[2]) = 3
  /\ ChunkBudget(regex.chunks[1]) + ChunkBudget(regex.chunks[2]) > MAX_PATTERN_LEN

\* the template has a replacement field other than translation and original
HasUnknownSlot(template) ==
  \E i \in 1..(Len(template) - 2) :
     /\ template[i] = "{"
     /\ template[i + 2] = "}"
     /\ template[i + 1] \notin {"translation", "original", "{", "}"}

\* the matches of the last scan that resolve to a key
ResolvedSpans ==
  {i \in 1..Len(call.matches) :
     Resolve(lower_to_original, lemma_map,
             Lower(MatchedText(call.matches[i]))) # None}

\* C18: a rewrite with a template that names an unknown slot, on a text with
\* at least one match, raises KeyError and returns no text; and a rewrite
\* that returns has substituted every resolved match, never only a part
C18_UnknownSlotRejectedWhole ==
  call.op = "attach" =>
    /\ (HasUnknownSlot(call.template) /\ ResolvedSpans # {})
          => (call.raised = "KeyError" /\ call.result = <<>>)
    /\ call.raised # "none" => call.result = <<>>
    /\ call.raised = "none"
          => Len(call.replacements) = Cardinality(ResolvedSpans)

\* a rewrite of a text with matches, rejected for its template
C18_Witness ==
  /\ call.op = "attach"
  /\ call.template = tpl_unknown
  /\ call.text = x_orc
  /\ Len(call.matches) = 3
  /\ ResolvedSpans = {1, 2, 3}
  /\ call.raised = "KeyError"
  /\ call.result = <<>>

\* the i-th character of text exists and is a word character
WordCharAt(text, i) == i >= 1 /\ i <= Len(text) /\ IsWordChar(text[i])

\* C19: every match of find and rewrite starts and ends where a word
\* character meets a non-word character or the edge of the text; so a match
\* made of word characters is a whole word, never a part of a longer one
C19_WordBoundaryDelimited ==
  call.op \in {"find", "attach"} =>
    \A i \in 1..Len(call.matches) :
       LET m == call.matches[i]
       IN  /\ WordCharAt(call.text, m[1]) # WordCharAt(call.text, m[1] + 1)
           /\ WordCharAt(call.text, m[2]) # WordCharAt(call.text, m[2] + 1)
           /\ (/\ m[2] > m[1]
               /\ \A j \in (m[1] + 1)..m[2] : IsWordChar(call.text[j]))
                 => (/\ ~WordCharAt(call.text, m[1])
                     /\ ~WordCharAt(call.text, m[2] + 1))

\* 'run' is a key and occurs in the text only as the start of 'running':
\* the scan reports no match
C19_Witness ==
  /\ Returned("find")
  /\ call.text = x_running
  /\ DictHas(translation_dict, s_run)
  /\ regex.compiled
  /\ LiteralAt(call.text, 3, s_run)
  /\ call.matches = <<>>
  /\ call.terms = <<>>

\* C20: the matches one pass of find or rewrite resolves, and the
\* substitutions a rewrite collects from them, are in scan order and
\* disjoint: starts strictly increase and a match ends at or before the
\* start of the next one
C20_MatchesDisjointInScanOrder ==
  call.op \in {"find", "attach"} =>
    /\ \A i, j \in ResolvedSpans :
         i < j => /\ call.matches[i][1] < call.matches[j][1]
                  /\ call.matches[i][2] <= call.matches[j][1]
    /\ \A i \in 1..(Len(call.replacements) - 1) :
         /\ call.replacements[i][1] < call.replacements[i + 1][1]
         /\ call.replacements[i][2] <= call.replacements[i + 1][1]

\* a rewrite that collected two substitutions over a dictionary in which a
\* key ('ball') is a part of another key ('fire ball') of the same text
C20_Witness ==
  /\ Returned("attach")
  /\ call.text = x_ww
  /\ DictHas(translation_dict, s_ball)
  /\ DictHas(translation_dict, s_fire_ball)
  /\ Len(call.replacements) = 2
  /\ call.replacements[1][2] <= call.replacements[2][1]


\* C21: the substitutions of a rewrite are applied in descending order of
\* start offset, and when a substitution (start, end, replacement) is
\* applied the working buffer still has the matched text of the input at
\* [start:end] and the prefix of the input at [0:start]; the buffer left by
\* the last one is the text returned
C21_ReverseSplicingKeepsOffsets ==
  Returned("attach") =>
    LET tr == SpliceTrace(call.text, call.replacements)
    IN  /\ Len(tr) = Len(call.replacements)
        /\ \A k \in 1..Len(tr) :
             LET start == tr[k].r[1]
                 end == tr[k].r[2]
             IN  /\ k > 1 => start < tr[k - 1].r[1]
                 /\ Slice(tr[k].buffer, start, end) = Slice(call.text, start, end)
                 /\ Slice(tr[k].buffer, 0, start) = Slice(call.text, 0, start)
        /\ tr # <<>> => call.result = Splice(tr[Len(tr)].buffer, tr[Len(tr)].r)

\* a rewrite with three substitutions whose expansion is longer than the
\* matched text
C21_Witness ==
  /\ Returned("attach")
  /\ call.text = x_orc
  /\ call.template = tpl_paren
  /\ Len(call.replacements) = 3
  /\ StrLen(call.result) > StrLen(call.text)

\* a rewrite with several substitutions whose expansion is shorter than the
\* matched text
C21_WitnessShorter ==
  /\ Returned("attach")
  /\ call.template = tpl_empty
  /\ Len(call.replacements) >= 2
  /\ StrLen(call.result) < StrLen(call.text)

\* a rewrite with several substitutions whose expansion equals the matched
\* text
C21_WitnessEqual ==
  /\ Returned("attach")
  /\ call.template = tpl_original
  /\ Len(call.replacements) >= 2
  /\ call.result = call.text


\* C22: a find_terms_in_text that follows a returned find_terms_in_text on
\* the same text, with the dictionary not reloaded, returns the same
\* mapping (same keys, same values, same order), also when the first of the
\* two calls ran the lazy build
C22_FindIsIdempotent ==
  [][(/\ Returned("find")
      /\ call'.op = "find"
      /\ call'.raised = "none"
      /\ call'.text = call.text) => call'.terms = call.terms]_vars

\* a find that resolved a lemma match on an index that an earlier call had
\* built
C22_Witness ==
  /\ Returned("find")
  /\ call.built_before
  /\ ~call.rebuilt
  /\ call.text = x_run
  /\ Entry(s_running) \in Range(call.terms)
  /\ Len(call.terms) = 2

\* C23: a find_terms_in_text or attach_translations_to_text on a built index
\* leaves the dictionary, the compiled pattern, the surface map, the lemma
\* map and the built flag unchanged
C23_MatcherAndRewriterKeepIndex ==
  [][(indexes_built /\ call'.op \in {"find", "attach"}) =>
       UNCHANGED <<translation_dict, regex, lower_to_original, lemma_map,
                   indexes_built>>]_vars

\* a rewrite with substitutions on an index built before the call, over a
\* dictionary whose recognized forms can be sorted in more than one order
C23_Witness ==
  /\ Returned("attach")
  /\ call.built_before
  /\ ~call.rebuilt
  /\ indexes_built
  /\ DictHas(translation_dict, s_ball)
  /\ DictHas(translation_dict, s_fire)
  /\ call.replacements # <<>>


\* C25 (as claimed): for every key k of the dictionary that shares its
\* lowercase form with no other key, find_terms_in_text on the text k
\* returns exactly {k: translation of k} and attach_translations_to_text
\* replaces the whole text once, also for a key that begins or ends with a
\* non-word character and for a key longer than the chunk ceiling
C25_EveryKeyIsFound ==
  \A k \in DictKeySet(translation_dict) :
     (/\ call.text = k
      /\ call.raised = "none"
      /\ \A k2 \in DictKeySet(translation_dict) \ {k} : Lower(k2) # Lower(k))
       => /\ call.op = "find" => call.terms = <<Entry(k)>>
          /\ call.op = "attach" =>
               /\ Len(call.replacements) = 1
               /\ call.replacements[1][1] = 0
               /\ call.replacements[1][2] = Len(call.text)

\* the groups of the alternation that hold at least one term
TermChunks(chunks) == SelectSeq(chunks, LAMBDA c : c # <<>> /\ c # << <<>> >>)

\* C26 (as claimed): the groups of every compiled alternation, concatenated
\* in order, are the escaped recognized forms in their length-descending
\* order, each once, and no group is empty
C26_ChunksPartitionTerms ==
  regex.compiled =>
    /\ \E o \in SortedFormOrders(AllFormsLower(lower_to_original, lemma_map)) :
         Concat(TermChunks(regex.chunks)) = [i \in 1..Len(o) |-> Escape(o[i])]
    /\ TermChunks(regex.chunks) = regex.chunks

InEngine(t) == att.pc[t] \in LoadPcs \cup BuildPcs \cup AttachPcs

\* C24 (as claimed): no two threads of the attacher tab are inside
\* load_translation_table, build_search_indexes or
\* attach_translations_to_text of the tab's engine at the same time
C24_SingleWriterPerEngine ==
  \A t1, t2 \in Threads : (InEngine(t1) /\ InEngine(t2)) => t1 = t2

\* C28 (as claimed): a live-preview rewrite that ran while a background
\* thread reloaded the glossary never finishes on lookup tables built from
\* another dictionary than the current one, and never raises KeyError for a
\* canonical key that translation_dict lacks
C28_NoTornEngineState ==
  /\ ~att.outcome["main"].torn
  /\ att.outcome["main"].raised # "KeyError:translation_dict"


\* a worker of kind k is started in this step
Started(k) == tab'.running[k] > tab.running[k]

\* C29: in both tabs a started worker of either kind leads to its tab's
\* processing flag reset and its button enabled again, however its try
\* block ends; and a worker is only ever started from an enabled button
C29_ProcessingAlwaysEnds ==
  /\ \A k \in Kinds :
       (tab.running[k] > 0) ~>
          (~tab.processing[TabOf(k)] /\ tab.button[ButtonOf(k)] = "normal")
  /\ [][\A k \in Kinds : Started(k) =>
          (tab.button[ButtonOf(k)] = "normal"
           /\ tab'.button[ButtonOf(k)] = "disabled")]_tab

\* the last worker failed with FileNotFoundError and every worker has
\* ended: nothing is pending, the flags are reset and the buttons of the
\* preview and of the rewrite are enabled
C29_Witness ==
  /\ tab.last = "FileNotFoundError"
  /\ \A k \in Kinds : tab.running[k] = 0 /\ tab.finishing[k] = 0
  /\ tab.queue = <<>>
  /\ ~tab.processing["extractor"]
  /\ ~tab.processing["attacher"]
  /\ tab.button["preview_btn"] = "normal"
  /\ tab.button["attach_btn"] = "normal"

\* C30 (as claimed): in every state of ExtractorTab export_btn is enabled
\* only if _found_terms is not empty
C30_ExportOnlyWithResults ==
  tab.button["export_btn"] = "normal" => tab.found_terms > 0

====
